---- MODULE Spec2Model ----
(***************************************************************************)
(* OpentelemetryFuser: a wrapper around a fuser::Filesystem that forwards  *)
(* every operation to the wrapped filesystem and wraps some of them in an  *)
(* OpenTelemetry span (src/src/opentelemetry.rs).                          *)
(*                                                                         *)
(* One call of a handler is modelled as the sequence of its statements:    *)
(* tracer.start, the call of the wrapped filesystem, span.end, return.     *)
(* The wrapped filesystem and the tracer are type parameters of the        *)
(* wrapper, so what they do is a nondeterministic choice.                  *)
(***************************************************************************)
EXTENDS Integers, Sequences, FiniteSets, TLC

\* Number of operations the kernel delivers between init and destroy.
MaxOps == 1

\* Argument values are drawn from Seeds: argument i of a call is seed + i.
Seeds == {0, 1}

\* libc error codes a filesystem writes on a reply channel (ENOENT, ENOSYS).
ErrorCodes == {2, 38}

NoSpan == "none"
NoReply == 0
NoReq == 0
NoCall == [verb |-> "none", req |-> NoReq, args |-> <<>>, reply |-> NoReply]

\* The methods of impl Filesystem for OpentelemetryFuser, in source order.
VerbSeq ==
  << "init", "destroy", "lookup", "forget", "batch_forget", "getattr",
     "setattr", "readlink", "mknod", "mkdir", "unlink", "rmdir", "symlink",
     "rename", "link", "open", "read", "write", "flush", "release", "fsync",
     "opendir", "readdir", "readdirplus", "releasedir", "fsyncdir", "statfs",
     "setxattr", "getxattr", "listxattr", "removexattr", "access", "create",
     "getlk", "setlk", "bmap", "ioctl", "poll", "fallocate", "lseek",
     "copy_file_range" >>

Verbs == {VerbSeq[i] : i \in 1..Len(VerbSeq)}

LifecycleVerbs == {"init", "destroy"}

\* The methods compiled only for target_os = "macos".
HostVerbs == {"setvolname", "exchange", "getxtimes"}

\* The method of the common set nearest in function to a macOS-only method.
Peer(verb) ==
  CASE verb = "exchange" -> "rename"
    [] verb = "getxtimes" -> "getattr"
    [] verb = "setvolname" -> "statfs"

\* Methods whose signature has no reply parameter.
NoReplyVerbs == {"init", "destroy", "forget", "batch_forget"}

HasReply(verb) == verb \notin NoReplyVerbs

\* Number of parameters of a method besides self, req and reply.
Arity(verb) ==
  CASE verb = "init" -> 1
    [] verb = "destroy" -> 0
    [] verb = "lookup" -> 2
    [] verb = "forget" -> 2
    [] verb = "batch_forget" -> 1
    [] verb = "getattr" -> 1
    [] verb = "setattr" -> 13
    [] verb = "readlink" -> 1
    [] verb = "mknod" -> 5
    [] verb = "mkdir" -> 4
    [] verb = "unlink" -> 2
    [] verb = "rmdir" -> 2
    [] verb = "symlink" -> 3
    [] verb = "rename" -> 5
    [] verb = "link" -> 3
    [] verb = "open" -> 2
    [] verb = "read" -> 6
    [] verb = "write" -> 7
    [] verb = "flush" -> 3
    [] verb = "release" -> 5
    [] verb = "fsync" -> 3
    [] verb = "opendir" -> 2
    [] verb = "readdir" -> 3
    [] verb = "readdirplus" -> 3
    [] verb = "releasedir" -> 3
    [] verb = "fsyncdir" -> 3
    [] verb = "statfs" -> 1
    [] verb = "setxattr" -> 5
    [] verb = "getxattr" -> 3
    [] verb = "listxattr" -> 2
    [] verb = "removexattr" -> 2
    [] verb = "access" -> 2
    [] verb = "create" -> 5
    [] verb = "getlk" -> 7
    [] verb = "setlk" -> 8
    [] verb = "bmap" -> 3
    [] verb = "ioctl" -> 6
    [] verb = "poll" -> 5
    [] verb = "fallocate" -> 5
    [] verb = "lseek" -> 4
    [] verb = "copy_file_range" -> 8
    [] verb = "setvolname" -> 1
    [] verb = "exchange" -> 5
    [] verb = "getxtimes" -> 1

\* The name a handler passes to self.tracer.start, NoSpan when it starts none.
SpanName(verb) ==
  CASE verb = "init" -> "Filesystem::init"
    [] verb = "destroy" -> "Filesystem::init"
    [] verb = "lookup" -> "Filesystem::lookup"
    [] verb = "forget" -> "Filesystem::forget"
    [] verb = "batch_forget" -> "Filesystem::batch_forget"
    [] verb = "getattr" -> "Filesystem::getattr"
    [] verb = "setattr" -> "Filesystem::setattr"
    [] verb = "readlink" -> "Filesystem::readlink"
    [] verb = "mknod" -> "Filesystem::mknod"
    [] verb = "mkdir" -> "Filesystem::mkdir"
    [] verb = "unlink" -> "Filesystem::unlink"
    [] verb = "rmdir" -> "Filesystem::rmdir"
    [] verb = "symlink" -> "Filesystem::symlink"
    [] verb = "rename" -> "Filesystem::rename"
    [] verb = "link" -> "Filesystem::link"
    [] verb = "open" -> "Filesystem::open"
    [] verb = "read" -> "Filesystem::read"
    [] verb = "write" -> "Filesystem::write"
    [] verb = "flush" -> "Filesystem::flush"
    [] OTHER -> NoSpan

\* A handler that forgets span.end() at the bottom of its body.
HandlerBodyNoEnd(verb) ==
  IF SpanName(verb) = NoSpan
    THEN << "delegate" >>
    ELSE << "start", "delegate" >>

\* A handler that ends its span before it delegates.
HandlerBodyEndFirst(verb) ==
  IF SpanName(verb) = NoSpan
    THEN << "delegate" >>
    ELSE << "start", "end", "delegate" >>

\* A dispatcher whose forget and batch_forget forward without a span, as
\* the handlers from release onwards do.
HandlerBodyPlainForget(verb) ==
  IF SpanName(verb) = NoSpan \/ verb \in {"forget", "batch_forget"}
    THEN << "delegate" >>
    ELSE << "start", "delegate", "end" >>

\* A dispatcher that wraps every handler in a span, the plain ones too.
HandlerBodyTraceAll(verb) == << "start", "delegate", "end" >>

\* The statements of a handler body, in program order.
HandlerBody(verb) ==
  IF SpanName(verb) = NoSpan
    THEN << "delegate" >>
    ELSE << "start", "delegate", "end" >>

\* A handler that passes its arguments in the reverse order.
DelegationReversed(call) ==
  [verb |-> call.verb, req |-> call.req,
   args |-> [i \in 1..Len(call.args) |-> call.args[Len(call.args) + 1 - i]],
   reply |-> call.reply]

\* A batch_forget that falls back to forget, as fuser's default method does.
DelegationSplitBatch(call) ==
  [verb |-> IF call.verb = "batch_forget" THEN "forget" ELSE call.verb,
   req |-> call.req, args |-> call.args, reply |-> call.reply]

\* The call self.fs.<verb>(req, args.., reply) a handler makes for `call`.
Delegation(call) ==
  [verb |-> call.verb, req |-> call.req, args |-> call.args, reply |-> call.reply]

\* A handler whose commented-out reply.ok() is live.
DispatcherWritesOk(verb) == << [kind |-> "ok", code |-> 0] >>

\* A handler whose commented-out reply.error(ENOSYS) is live.
DispatcherWritesEnosys(verb) == << [kind |-> "error", code |-> 38] >>

\* What the handler of `verb` itself writes on the reply channel: nothing.
DispatcherWrites(verb) == << >>

\* The argument tuple of a call: batch_forget takes one list of `seed` nodes.
ArgsOf(verb, seed) ==
  IF verb = "batch_forget"
    THEN << [i \in 1..seed |-> i] >>
    ELSE [i \in 1..Arity(verb) |-> seed + i]

VARIABLES
  workload,       \* what the Kernel Bridge delivers and how the inner behaves
  wrapper,        \* the fields of OpentelemetryFuser: [fs, tracer]
  lookups,        \* the provider.tracer(name) calls made by the wrapper's code
  phase,          \* session: "new", "mounted", "initfailed", "destroyed"
  nOps,           \* operations delivered since init
  pc,             \* "idle", "running", "unwinding", "crashed"
  ip,             \* index of the next statement of the running handler
  cur,            \* the call the Kernel Bridge made on the wrapper
  curSpan,        \* the handler's local `span` (index into spans), 0 if none
  kconfig,        \* the KernelConfig borrowed by the running init, 0 otherwise
  innerCalls,     \* calls the running handler made on the wrapped filesystem
  outcome,        \* what the wrapped filesystem did in the running call
  res,            \* value returned by the last handler (Unit, Ok, Err(code))
  events,         \* events of the running call, in order
  kernelLog,      \* verbs delivered by the Kernel Bridge, by request id
  innerLog,       \* [verb, reply] of every call on the wrapped filesystem
  spans,          \* spans started: [name, verb, req, ends, enders, tracer]
  replies,        \* per request id, the writes on its reply channel
  directReplies,  \* the same calls made directly on the wrapped filesystem
  pending,        \* reply channels the wrapped filesystem kept for later
  spanEndsOnDrop  \* whether TyTracer's span type ends itself when dropped

vars ==
  << workload, wrapper, lookups, phase, nOps, pc, ip, cur, curSpan, kconfig, innerCalls,
     outcome, res, events, kernelLog, innerLog, spans, replies, directReplies,
     pending, spanEndsOnDrop >>

\* A value on a reply channel or returned by init: a payload or an error code.
Ok == [kind |-> "ok", code |-> 0]
Err(e) == [kind |-> "error", code |-> e]
Unit == [kind |-> "unit", code |-> 0]

ReplyValues == {Ok} \cup {Err(e) : e \in ErrorCodes}

NoOutcome ==
  [write |-> "none", val |-> Unit, exit |-> "none", result |-> Unit, neg |-> FALSE]

\* What a wrapped filesystem can do with one call: write a reply at once,
\* keep the channel and reply later, or never reply; return or unwind.
\* init returns a result and may negotiate capabilities in the config.
Outcomes(verb) ==
  IF verb = "init"
    THEN [write : {"none"}, val : {Unit}, exit : {"return", "panic"},
          result : ReplyValues, neg : BOOLEAN]
    ELSE IF HasReply(verb)
      THEN [write : {"reply"}, val : ReplyValues,
            exit : {"return", "panic"}, result : {Unit}, neg : {FALSE}]
           \cup [write : {"defer", "silent"}, val : {Unit},
                 exit : {"return", "panic"}, result : {Unit}, neg : {FALSE}]
      ELSE [write : {"none"}, val : {Unit}, exit : {"return", "panic"},
            result : {Unit}, neg : {FALSE}]

\* A wrapped filesystem free to answer each call as it likes.
FreeInner == [det |-> FALSE, bad |-> 0, onBad |-> NoOutcome]

\* An unchanged, deterministic wrapped filesystem: a call on inode `bad`
\* always has the outcome onBad, every other call is answered Ok at once.
DetInners ==
  [det : {TRUE}, bad : {1, 2}, onBad : Outcomes("lookup")]

DetOutcome(p, call) ==
  IF call.args[1] = p.bad
    THEN p.onBad
    ELSE [write |-> "reply", val |-> Ok, exit |-> "return", result |-> Unit,
          neg |-> FALSE]

\* The outcomes the wrapped filesystem of this run can have for `call`.
InnerAllows(call, o) ==
  IF ~workload.inner.det \/ call.verb \in LifecycleVerbs
    THEN TRUE
    ELSE o = DetOutcome(workload.inner, call)

\* The capabilities the wrapped filesystem leaves in the config it was given.
Negotiate(config, o) == IF o.neg THEN config + 10 ELSE config

\* The Trace Providers a program can hold.
Providers == {"tracer_provider", "other_provider"}

\* provider.tracer(name): a tracer that emits into the provider it came from.
TracerOf(provider, name) == [provider |-> provider, name |-> name]

\* OpentelemetryFuser::new(fs, tracer): the tracer is stored as given.
New(fs, tracer) == [self |-> [fs |-> fs, tracer |-> tracer], lookups |-> << >>]

\* OpentelemetryFuser::new_with_provider(fs, &provider): one lookup, under
\* the fixed name, and new with its result.
NewWithProvider(fs, provider) ==
  [self |-> New(fs, TracerOf(provider, "fuser")).self,
   lookups |-> << [provider |-> provider, name |-> "fuser"] >>]

\* How main builds the wrapper.
MainBuild == [ctor |-> "new_with_provider", provider |-> "tracer_provider", name |-> "fuser"]

\* The ways a program can build a wrapper: with a tracer it obtained itself
\* from a provider under a name of its choice, or with a provider.
Builds ==
  [ctor : {"new", "new_with_provider"}, provider : Providers, name : {"fuser", "test"}]

Construct(b) ==
  IF b.ctor = "new"
    THEN New("fs", TracerOf(b.provider, b.name))
    ELSE NewWithProvider("fs", b.provider)

\* The sessions of the Linux build: any verb, any outcome.
FullWorkload == [kind |-> "full", script |-> << >>, inner |-> FreeInner, build |-> MainBuild]

\* Operations on one inode and file handle, with and without a reply.
OrderVerbs == {"batch_forget", "read", "write", "release"}

\* One traced verb with a reply, one without, and one untraced verb.
LiveVerbs == {"lookup", "forget", "release"}

\* A traced and an untraced verb, for wrappers built in different ways.
BindVerbs == {"lookup", "release"}

\* The read-only operations of a session that is repeated.
ReadOnlyVerbs == {"lookup", "getattr", "read", "readdir"}

\* The verbs, argument seeds and number of operations of a session, and
\* whether steps of its tracer can fail.
WorkloadVerbs ==
  CASE workload.kind = "full" -> Verbs
    [] workload.kind = "faults" -> Verbs
    [] workload.kind = "order" -> OrderVerbs \cup LifecycleVerbs
    [] workload.kind = "macos" ->
         HostVerbs \cup {Peer(v) : v \in HostVerbs} \cup LifecycleVerbs
    [] workload.kind = "repeat" -> ReadOnlyVerbs \cup LifecycleVerbs
    [] workload.kind = "live" -> LiveVerbs \cup LifecycleVerbs
    [] workload.kind = "bind" -> BindVerbs \cup LifecycleVerbs

WorkloadSeeds ==
  CASE workload.kind = "full" -> Seeds
    [] workload.kind = "faults" -> {1}
    [] workload.kind = "order" -> {2}
    [] workload.kind = "macos" -> Seeds
    [] workload.kind = "repeat" -> Seeds
    [] workload.kind = "live" -> {1}
    [] workload.kind = "bind" -> {1}

WorkloadOps ==
  CASE workload.kind = "full" -> MaxOps
    [] workload.kind = "faults" -> MaxOps
    [] workload.kind = "order" -> MaxOps + 1
    [] workload.kind = "macos" -> MaxOps
    [] workload.kind = "repeat" -> Len(workload.script) + Len(workload.script)
    [] workload.kind = "live" -> MaxOps + 1
    [] workload.kind = "bind" -> MaxOps + 1

WorkloadFaults == workload.kind \in {"faults", "live"}

\* Sessions of several operations addressed to the same inode.
OrderWorkload == [kind |-> "order", script |-> << >>, inner |-> FreeInner, build |-> MainBuild]

\* Sessions of a macOS build: the macOS-only methods and their peers.
MacosWorkload == [kind |-> "macos", script |-> << >>, inner |-> FreeInner, build |-> MainBuild]

\* Sessions that run a sequence of read-only operations twice against an
\* unchanged, deterministic wrapped filesystem.
RepeatWorkloads ==
  [kind : {"repeat"},
   script : [1..MaxOps -> [verb : ReadOnlyVerbs, seed : Seeds]],
   inner : DetInners,
   build : {MainBuild}]

\* Sessions whose Trace Provider can fail inside tracer.start and span.end.
FaultsWorkload == [kind |-> "faults", script |-> << >>, inner |-> FreeInner, build |-> MainBuild]

\* Sessions in which every step that is enabled is eventually taken.
LiveWorkload == [kind |-> "live", script |-> << >>, inner |-> FreeInner, build |-> MainBuild]

\* Sessions on a wrapper built in any of the ways a program can build it.
BindWorkloads ==
  [kind : {"bind"}, script : {<< >>}, inner : {FreeInner}, build : Builds]

InitWith(w) ==
  /\ workload = w
  /\ wrapper = Construct(w.build).self
  /\ lookups = Construct(w.build).lookups
  /\ phase = "new"
  /\ nOps = 0
  /\ pc = "idle"
  /\ ip = 0
  /\ cur = NoCall
  /\ curSpan = 0
  /\ kconfig = 0
  /\ innerCalls = << >>
  /\ outcome = NoOutcome
  /\ res = Unit
  /\ events = << >>
  /\ kernelLog = << >>
  /\ innerLog = << >>
  /\ spans = << >>
  /\ replies = << >>
  /\ directReplies = << >>
  /\ pending = {}
  /\ spanEndsOnDrop \in BOOLEAN

Init == InitWith(FullWorkload)

\* The Kernel Bridge delivers init first, then operations, then destroy.
Deliverable(verb) ==
  CASE verb = "init" -> phase = "new"
    [] verb = "destroy" -> phase \in {"mounted", "initfailed"}
    [] OTHER -> phase = "mounted" /\ nOps < WorkloadOps

\* A scripted session delivers the operations of its script, over and over.
Scripted(verb, seed) ==
  IF verb \in LifecycleVerbs \/ workload.script = << >>
    THEN TRUE
    ELSE LET e == workload.script[(nOps % Len(workload.script)) + 1]
         IN e.verb = verb /\ e.seed = seed

KernelCall ==
  \E verb \in WorkloadVerbs, seed \in WorkloadSeeds :
    /\ pc = "idle"
    /\ Deliverable(verb)
    /\ Scripted(verb, seed)
    /\ LET req == Len(kernelLog) + 1 IN
         /\ cur' = [verb |-> verb,
                    req |-> IF verb = "destroy" THEN NoReq ELSE req,
                    args |-> ArgsOf(verb, seed),
                    reply |-> IF HasReply(verb) THEN req ELSE NoReply]
         /\ kernelLog' = Append(kernelLog, verb)
    /\ kconfig' = IF verb = "init" THEN ArgsOf(verb, seed)[1] ELSE 0
    /\ replies' = Append(replies, << >>)
    /\ directReplies' = Append(directReplies, << >>)
    /\ nOps' = IF verb \in LifecycleVerbs THEN nOps ELSE nOps + 1
    /\ pc' = "running"
    /\ ip' = 1
    /\ curSpan' = 0
    /\ innerCalls' = << >>
    /\ outcome' = NoOutcome
    /\ events' = << "call" >>
    /\ UNCHANGED << workload, lookups, wrapper, phase, res, innerLog, spans, pending,
                    spanEndsOnDrop >>

AtStatement(stmt) ==
  /\ pc = "running"
  /\ ip <= Len(HandlerBody(cur.verb))
  /\ HandlerBody(cur.verb)[ip] = stmt

\* What the tracer reports to the handler when one of its steps failed
\* inside the Trace Provider: nothing, start returns a span and end returns.
TracerStep(event, failed) ==
  IF failed THEN << event, "tracer_fault" >> ELSE << event >>

\* Whether a step of the tracer can fail in this run.
TracerFaults == IF WorkloadFaults THEN BOOLEAN ELSE {FALSE}

\* A handler that gives up the call when tracer.start failed.
SpanStartFailFast ==
  \E failed \in TracerFaults :
    /\ AtStatement("start")
    /\ spans' = Append(spans, [name |-> SpanName(cur.verb), verb |-> cur.verb,
                               req |-> Len(kernelLog), ends |-> IF failed THEN 1 ELSE 0,
                               enders |-> IF failed THEN << Len(kernelLog) >> ELSE << >>,
                               tracer |-> wrapper.tracer])
    /\ curSpan' = Len(spans) + 1
    /\ events' = events \o TracerStep("span_start", failed)
    /\ ip' = IF failed THEN Len(HandlerBody(cur.verb)) + 1 ELSE ip + 1
    /\ UNCHANGED << workload, lookups, wrapper, phase, nOps, pc, cur, kconfig, innerCalls,
                    outcome, res, kernelLog, innerLog, replies, directReplies,
                    pending, spanEndsOnDrop >>

\* A handler that reuses the span of an earlier call of the same name.
SpanStartCached ==
  \E failed \in TracerFaults :
    /\ AtStatement("start")
    /\ IF \E i \in 1..Len(spans) : spans[i].name = SpanName(cur.verb)
         THEN /\ spans' = spans
              /\ curSpan' = CHOOSE i \in 1..Len(spans) : spans[i].name = SpanName(cur.verb)
         ELSE /\ spans' = Append(spans, [name |-> SpanName(cur.verb), verb |-> cur.verb,
                                         req |-> Len(kernelLog), ends |-> 0,
                                         enders |-> << >>, tracer |-> wrapper.tracer])
              /\ curSpan' = Len(spans) + 1
    /\ events' = events \o TracerStep("span_start", failed)
    /\ ip' = ip + 1
    /\ UNCHANGED << workload, lookups, wrapper, phase, nOps, pc, cur, kconfig, innerCalls,
                    outcome, res, kernelLog, innerLog, replies, directReplies,
                    pending, spanEndsOnDrop >>

\* A handler that asks the process-wide provider for its tracer on every call.
SpanStartRelookup ==
  \E failed \in TracerFaults :
    /\ AtStatement("start")
    /\ lookups' = Append(lookups, [provider |-> "global", name |-> "fuser"])
    /\ spans' = Append(spans, [name |-> SpanName(cur.verb), verb |-> cur.verb,
                               req |-> Len(kernelLog), ends |-> 0,
                               enders |-> << >>, tracer |-> TracerOf("global", "fuser")])
    /\ curSpan' = Len(spans) + 1
    /\ events' = events \o TracerStep("span_start", failed)
    /\ ip' = ip + 1
    /\ UNCHANGED << workload, wrapper, phase, nOps, pc, cur, kconfig, innerCalls,
                    outcome, res, kernelLog, innerLog, replies, directReplies,
                    pending, spanEndsOnDrop >>

\* let mut span = self.tracer.start(name);
SpanStart ==
  \E failed \in TracerFaults :
    /\ AtStatement("start")
    /\ spans' = Append(spans, [name |-> SpanName(cur.verb), verb |-> cur.verb,
                               req |-> Len(kernelLog), ends |-> 0,
                               enders |-> << >>, tracer |-> wrapper.tracer])
    /\ curSpan' = Len(spans) + 1
    /\ events' = events \o TracerStep("span_start", failed)
    /\ ip' = ip + 1
    /\ UNCHANGED << workload, lookups, wrapper, phase, nOps, pc, cur, kconfig, innerCalls,
                    outcome, res, kernelLog, innerLog, replies, directReplies,
                    pending, spanEndsOnDrop >>

WriteOn(log, ch, writes) ==
  IF ch \in 1..Len(log) THEN [log EXCEPT ![ch] = @ \o writes] ELSE log

InnerWrites(o) ==
  IF o.write = "reply" THEN << [by |-> "inner", val |-> o.val] >> ELSE << >>

\* self.fs.<verb>(req, args.., reply): the wrapped filesystem runs, with the
\* reply channel it was handed, and returns or unwinds.
Delegate ==
  \E o \in Outcomes(cur.verb) :
    /\ AtStatement("delegate")
    /\ InnerAllows(cur, o)
    /\ LET d == Delegation(cur)
           own == [i \in 1..Len(DispatcherWrites(cur.verb)) |->
                     [by |-> "dispatcher", val |-> DispatcherWrites(cur.verb)[i]]]
       IN
         /\ innerCalls' = Append(innerCalls, d)
         /\ innerLog' = Append(innerLog, [verb |-> d.verb, reply |-> d.reply])
         /\ replies' = WriteOn(WriteOn(replies, cur.reply, own), d.reply, InnerWrites(o))
         /\ directReplies' = WriteOn(directReplies, cur.reply, InnerWrites(o))
         /\ pending' = IF o.write = "defer" THEN pending \cup {d.reply} ELSE pending
         /\ kconfig' = IF d.verb = "init" /\ Len(d.args) > 0
                         THEN Negotiate(d.args[1], o)
                         ELSE kconfig
    /\ outcome' = o
    /\ events' = events
                   \o << "inner_invoke" >>
                   \o (IF o.write = "reply" THEN << "reply_write" >> ELSE << >>)
                   \o (IF o.exit = "return" THEN << "inner_return" >> ELSE << "inner_unwind" >>)
    /\ IF o.exit = "return"
         THEN /\ pc' = "running"
              /\ ip' = ip + 1
         ELSE /\ pc' = "unwinding"
              /\ ip' = ip
    /\ UNCHANGED << workload, lookups, wrapper, phase, nOps, cur, curSpan, res, kernelLog,
                    spans, spanEndsOnDrop >>

\* A handler that ends a span kept in a slot shared by all calls.
SpanEndShared ==
  \E failed \in TracerFaults :
    /\ AtStatement("end")
    /\ spans' = [spans EXCEPT ![1].ends = @ + 1,
                              ![1].enders = Append(@, Len(kernelLog))]
    /\ events' = events \o TracerStep("span_end", failed)
    /\ ip' = ip + 1
    /\ UNCHANGED << workload, lookups, wrapper, phase, nOps, pc, cur, curSpan, kconfig,
                    innerCalls, outcome, res, kernelLog, innerLog, replies,
                    directReplies, pending, spanEndsOnDrop >>

\* span.end();
SpanEnd ==
  \E failed \in TracerFaults :
    /\ AtStatement("end")
    /\ spans' = [spans EXCEPT ![curSpan].ends = @ + 1,
                              ![curSpan].enders = Append(@, Len(kernelLog))]
    /\ events' = events \o TracerStep("span_end", failed)
    /\ ip' = ip + 1
    /\ UNCHANGED << workload, lookups, wrapper, phase, nOps, pc, cur, curSpan, kconfig,
                    innerCalls, outcome, res, kernelLog, innerLog, replies,
                    directReplies, pending, spanEndsOnDrop >>

\* An init that swallows the wrapped filesystem's error and returns Ok(()).
HandlerResultOk(verb, o) ==
  IF verb = "init" THEN [kind |-> "ok", code |-> 0] ELSE o.result

\* The value a handler returns: init returns the wrapped filesystem's result.
HandlerResult(verb, o) == o.result

\* A handler that counts the calls it has served in a field of its own.
ReturnCounting ==
  /\ pc = "running"
  /\ ip > Len(HandlerBody(cur.verb))
  /\ pc' = "idle"
  /\ ip' = 0
  /\ curSpan' = 0
  /\ wrapper' = [fs |-> wrapper.fs, tracer |-> wrapper.tracer, served |-> Len(kernelLog)]
  /\ res' = HandlerResult(cur.verb, outcome)
  /\ events' = Append(events, "return")
  /\ phase' = CASE cur.verb = "init" ->
                     IF HandlerResult(cur.verb, outcome) = Ok
                       THEN "mounted" ELSE "initfailed"
                [] cur.verb = "destroy" -> "destroyed"
                [] OTHER -> phase
  /\ UNCHANGED << workload, lookups, nOps, cur, kconfig, innerCalls, outcome,
                  kernelLog, innerLog, spans, replies, directReplies, pending,
                  spanEndsOnDrop >>

\* A handler that returns only once its reply channel has been written.
ReturnAwaitsReply ==
  /\ pc = "running"
  /\ ip > Len(HandlerBody(cur.verb))
  /\ cur.reply \in 1..Len(replies) => replies[cur.reply] # << >>
  /\ pc' = "idle"
  /\ ip' = 0
  /\ curSpan' = 0
  /\ res' = HandlerResult(cur.verb, outcome)
  /\ events' = Append(events, "return")
  /\ phase' = CASE cur.verb = "init" ->
                     IF HandlerResult(cur.verb, outcome) = Ok
                       THEN "mounted" ELSE "initfailed"
                [] cur.verb = "destroy" -> "destroyed"
                [] OTHER -> phase
  /\ UNCHANGED << workload, lookups, wrapper, nOps, cur, kconfig, innerCalls, outcome,
                  kernelLog, innerLog, spans, replies, directReplies, pending,
                  spanEndsOnDrop >>

\* The handler returns to the Kernel Bridge; its local span is dropped.
Return ==
  /\ pc = "running"
  /\ ip > Len(HandlerBody(cur.verb))
  /\ pc' = "idle"
  /\ ip' = 0
  /\ curSpan' = 0
  /\ res' = HandlerResult(cur.verb, outcome)
  /\ events' = Append(events, "return")
  /\ phase' = CASE cur.verb = "init" ->
                     IF HandlerResult(cur.verb, outcome) = Ok
                       THEN "mounted" ELSE "initfailed"
                [] cur.verb = "destroy" -> "destroyed"
                [] OTHER -> phase
  /\ UNCHANGED << workload, lookups, wrapper, nOps, cur, kconfig, innerCalls, outcome,
                  kernelLog, innerLog, spans, replies, directReplies, pending,
                  spanEndsOnDrop >>

\* The wrapped filesystem unwound: the handler's frame is dropped without
\* running its remaining statements; the local span is dropped with it.
Unwind ==
  /\ pc = "unwinding"
  /\ pc' = "crashed"
  /\ curSpan' = 0
  /\ spans' = IF curSpan # 0 /\ spanEndsOnDrop /\ spans[curSpan].ends = 0
                THEN [spans EXCEPT ![curSpan].ends = @ + 1,
                                   ![curSpan].enders = Append(@, Len(kernelLog))]
                ELSE spans
  /\ events' = Append(events, "unwind")
  /\ UNCHANGED << workload, lookups, wrapper, phase, nOps, ip, cur, kconfig, innerCalls,
                  outcome, res, kernelLog, innerLog, replies, directReplies,
                  pending, spanEndsOnDrop >>

\* The wrapped filesystem writes a reply it had kept for later.
InnerDeferredReply ==
  \E ch \in pending, v \in ReplyValues :
    /\ workload.inner.det => v = Ok
    /\ pending' = pending \ {ch}
    /\ replies' = WriteOn(replies, ch, << [by |-> "inner", val |-> v] >>)
    /\ directReplies' = WriteOn(directReplies, ch, << [by |-> "inner", val |-> v] >>)
    /\ UNCHANGED << workload, lookups, wrapper, phase, nOps, pc, ip, cur, curSpan, kconfig,
                    innerCalls, outcome, res, events, kernelLog, innerLog, spans,
                    spanEndsOnDrop >>

Next ==
  \/ KernelCall
  \/ SpanStart
  \/ Delegate
  \/ SpanEnd
  \/ Return
  \/ Unwind
  \/ InnerDeferredReply

Spec == Init /\ [][Next]_vars

InitOrder == InitWith(OrderWorkload)

SpecOrder == InitOrder /\ [][Next]_vars

InitMacos == InitWith(MacosWorkload)

SpecMacos == InitMacos /\ [][Next]_vars

InitRepeat == \E w \in RepeatWorkloads : InitWith(w)

SpecRepeat == InitRepeat /\ [][Next]_vars

InitFaults == InitWith(FaultsWorkload)

SpecFaults == InitFaults /\ [][Next]_vars

InitBind == \E w \in BindWorkloads : InitWith(w)

SpecBind == InitBind /\ [][Next]_vars

InitLive == InitWith(LiveWorkload)

\* A handler body is straight-line code: each of its statements runs once
\* the one before it is done, provided tracer.start, the wrapped filesystem
\* and span.end return (or unwind) when they are called.  Nothing obliges
\* the kernel to send a request or the wrapped filesystem to answer a reply
\* it has kept.
SpecLive ==
  /\ InitLive
  /\ [][Next]_vars
  /\ WF_vars(SpanStart)
  /\ WF_vars(Delegate)
  /\ WF_vars(SpanEnd)
  /\ WF_vars(Return)
  /\ WF_vars(Unwind)

----------------------------------------------------------------------------
\* Helpers for the properties.

\* The last call delivered has returned normally to the Kernel Bridge.
Returned == pc = "idle" /\ cur # NoCall

Requests == 1..Len(kernelLog)

ReplyRequests == {r \in Requests : HasReply(kernelLog[r])}

\* The spans started by the call of request r.
SpansOf(r) == {i \in 1..Len(spans) : spans[i].req = r}

Handoffs(r) == Cardinality({i \in 1..Len(innerLog) : innerLog[i].reply = r})

WritesBy(r, who) == Cardinality({i \in 1..Len(replies[r]) : replies[r][i].by = who})

\* Position of the first occurrence of event e in the running call, 0 if none.
Pos(e) ==
  IF \E i \in 1..Len(events) : events[i] = e
    THEN CHOOSE i \in 1..Len(events) :
           events[i] = e /\ \A j \in 1..(i - 1) : events[j] # e
    ELSE 0

Count(e) == Cardinality({i \in 1..Len(events) : events[i] = e})

----------------------------------------------------------------------------
\* C1: one call of a handler invokes the wrapped filesystem's same-named
\* operation exactly once, with the same request, the same argument values
\* in the same positions and the same reply channel; over the session the
\* wrapped filesystem has seen one call per delivered call, verb for verb.
C1_ForwardsOnceVerbatim ==
  /\ Len(innerCalls) <= 1
  /\ (pc \in {"idle", "unwinding", "crashed"} /\ cur # NoCall) => innerCalls = << cur >>
  /\ pc = "idle" =>
       /\ Len(innerLog) = Len(kernelLog)
       /\ \A r \in Requests : innerLog[r].verb = kernelLog[r]

C1_Witness ==
  /\ Returned
  /\ cur.verb = "setattr"
  /\ cur.args = << 2, 3, 4, 5, 6, 7, 8, 9, 10, 11, 12, 13, 14 >>
  /\ innerCalls = << cur >>

\* C2: on the reply channel of every request the handler hands the channel
\* to the wrapped filesystem at most once (exactly once when the call is
\* over), writes nothing itself, and so the channel carries exactly the one
\* write of a wrapped filesystem that replies once: never two writes, and
\* one write as soon as the wrapped filesystem has replied.
C2_ExactlyOneReply ==
  \A r \in ReplyRequests :
    /\ Handoffs(r) <= 1
    /\ (pc = "idle" \/ r < Len(kernelLog)) => Handoffs(r) = 1
    /\ WritesBy(r, "dispatcher") = 0
    /\ Len(replies[r]) <= 1
    /\ WritesBy(r, "inner") = 1 => Len(replies[r]) = 1

C2_Witness ==
  /\ Returned
  /\ cur.verb = "release"
  /\ outcome.write = "reply"
  /\ Len(replies[cur.reply]) = 1
  /\ Handoffs(cur.reply) = 1

\* C3: every started span has at most one end event, and once the calls
\* delivered so far have all returned (whatever the wrapped filesystem
\* replied, or if it returned early without replying) every started span
\* has exactly one: the number of end events equals the number of starts.
C3_OneEndPerSpan ==
  /\ \A i \in 1..Len(spans) : spans[i].ends <= 1
  /\ pc = "idle" => \A i \in 1..Len(spans) : spans[i].ends = 1
  /\ Count("span_end") <= Count("span_start")
  /\ Returned => Count("span_end") = Count("span_start")

C3_Witness ==
  /\ Returned
  /\ cur.verb = "read"
  /\ outcome.write = "silent"
  /\ Len(spans) = 2
  /\ \A i \in 1..Len(spans) : spans[i].ends = 1

\* C4: the writes on every reply channel, request by request and in order,
\* are the writes the same calls produce when made directly on the wrapped
\* filesystem, and init returns the wrapped filesystem's result.
C4_RepliesAsDirect ==
  /\ replies = directReplies
  /\ (Returned /\ cur.verb = "init") => res = outcome.result

C4_Witness ==
  /\ Returned
  /\ cur.verb = "lookup"
  /\ replies[cur.reply] = << [by |-> "inner", val |-> Ok] >>
  /\ directReplies[cur.reply] = replies[cur.reply]

\* C5: every call of a handler starts exactly one span: once the calls
\* delivered have returned, there are as many spans as calls.
C5_OneSpanPerCall ==
  pc = "idle" => Len(spans) = Len(kernelLog)

\* The verbs of the selective coverage policy.
SelectiveVerbs ==
  { "lookup", "read", "write", "readdir", "readdirplus", "getattr", "setattr",
    "create", "rename", "symlink", "link", "unlink" } \cup LifecycleVerbs

TracedSeen == {spans[i].verb : i \in 1..Len(spans)}

UntracedSeen ==
  {kernelLog[r] : r \in {q \in Requests : \A i \in 1..Len(spans) : spans[i].req # q}}

\* C6: the verbs seen to emit a span follow one coverage policy: either
\* no call went untraced (uniform), or the traced verbs all belong to the
\* selective set and no verb of the selective set went untraced.
C6_OneCoveragePolicy ==
  pc = "idle" =>
    \/ UntracedSeen = {}
    \/ /\ TracedSeen \subseteq SelectiveVerbs
       /\ UntracedSeen \cap SelectiveVerbs = {}

\* C7: every span is named after the verb of the call that started it, so
\* spans started for different verbs have different names.
C7_SpanNamedAfterVerb ==
  /\ \A i \in 1..Len(spans) : spans[i].name = "Filesystem::" \o spans[i].verb
  /\ \A i, j \in 1..Len(spans) :
       spans[i].verb # spans[j].verb => spans[i].name # spans[j].name

\* C8: when the wrapped filesystem unwinds through the handler, the span the
\* handler started is still ended exactly once: no finished call, returned
\* or unwound, leaves a span open.
C8_SpanEndedOnUnwind ==
  pc \in {"idle", "crashed"} => \A i \in 1..Len(spans) : spans[i].ends = 1

\* C9: in a call that starts a span, the span starts before the wrapped
\* filesystem is invoked, ends right after the wrapped filesystem returns
\* and before the handler returns, whether or not a reply was written.
C9_EventOrder ==
  /\ Pos("inner_invoke") # 0 /\ Pos("span_start") # 0 => Pos("span_start") < Pos("inner_invoke")
  /\ Pos("span_end") # 0 =>
       /\ Pos("inner_return") # 0
       /\ Pos("span_end") = Pos("inner_return") + 1
  /\ Pos("return") # 0 /\ Pos("span_start") # 0 =>
       /\ Pos("span_end") # 0
       /\ Pos("span_end") < Pos("return")

C9_Witness ==
  /\ Returned
  /\ cur.verb = "getattr"
  /\ outcome.write = "defer"
  /\ replies[cur.reply] = << >>
  /\ events = << "call", "span_start", "inner_invoke", "inner_return", "span_end", "return" >>

\* C10: when the wrapped filesystem answers a call with an error code, the
\* reply channel of that request carries exactly that one write with that
\* code, and the span the call started is ended.
C10_ErrorVerbatim ==
  (Returned /\ outcome.write = "reply" /\ outcome.val.kind = "error") =>
    /\ replies[cur.reply] = << [by |-> "inner", val |-> outcome.val] >>
    /\ \A i \in SpansOf(Len(kernelLog)) : spans[i].ends = 1

C10_Witness ==
  /\ Returned
  /\ cur.verb = "read"
  /\ cur.args = << 1, 2, 3, 4, 5, 6 >>
  /\ outcome.val = Err(2)
  /\ replies[cur.reply] = << [by |-> "inner", val |-> Err(2)] >>
  /\ SpansOf(Len(kernelLog)) # {}
  /\ \A i \in SpansOf(Len(kernelLog)) : spans[i].ends = 1

\* C11: init hands the kernel's config to the wrapped filesystem unmodified,
\* leaves in it what the wrapped filesystem negotiated, and returns the
\* wrapped filesystem's result, Ok or the same error code; its span starts
\* before and ends after the inner init, before init returns, on both results.
C11_InitPassThrough ==
  /\ (cur.verb = "init" /\ innerCalls # << >>) => innerCalls[1].args = cur.args
  /\ (Returned /\ cur.verb = "init") =>
       /\ kconfig = Negotiate(cur.args[1], outcome)
       /\ res = outcome.result
       /\ 0 < Pos("span_start")
       /\ Pos("span_start") < Pos("inner_invoke")
       /\ Pos("inner_invoke") < Pos("inner_return")
       /\ Pos("inner_return") < Pos("span_end")
       /\ Pos("span_end") < Pos("return")
       /\ \A i \in SpansOf(Len(kernelLog)) : spans[i].ends = 1

C11_Witness ==
  /\ Returned
  /\ cur.verb = "init"
  /\ cur.args = << 2 >>
  /\ outcome.neg
  /\ kconfig = 12
  /\ res = Err(38)
  /\ phase = "initfailed"
  /\ spans[1].ends = 1

C13_OrderPreserved ==
  /\ Len(innerLog) <= Len(kernelLog)
  /\ Len(kernelLog) <= Len(innerLog) + 1
  /\ \A i \in 1..Len(innerLog) :
       /\ innerLog[i].verb = kernelLog[i]
       /\ innerLog[i].reply = IF HasReply(kernelLog[i]) THEN i ELSE NoReply
  /\ pc \in {"idle", "unwinding", "crashed"} => Len(innerLog) = Len(kernelLog)
  /\ (cur.verb = "batch_forget" /\ innerCalls # << >>) => innerCalls = << cur >>

C13_Witness ==
  /\ Returned
  /\ kernelLog = << "init", "write", "read" >>
  /\ cur.args[1] = 3
  /\ Len(innerLog) = 3
  /\ innerLog[2].verb = "write"
  /\ innerLog[3].verb = "read"
  /\ innerCalls = << cur >>

\* C14: a span belongs to the call that started it: it is started for the
\* verb of its own request, every end event it gets comes from the call of
\* that request, the span handle a handler holds is the one of the running
\* call, and no handle is held once the call has returned or unwound.
C14_NoCrossSpan ==
  /\ \A i \in 1..Len(spans) :
       /\ spans[i].req \in Requests
       /\ spans[i].verb = kernelLog[spans[i].req]
       /\ \A k \in 1..Len(spans[i].enders) : spans[i].enders[k] = spans[i].req
       /\ \A j \in 1..Len(spans) : i # j => spans[i].req # spans[j].req
  /\ curSpan # 0 =>
       /\ pc \in {"running", "unwinding"}
       /\ spans[curSpan].req = Len(kernelLog)
  /\ pc \in {"idle", "crashed"} => curSpan = 0

C14_Witness ==
  /\ Returned
  /\ kernelLog = << "init", "write", "read" >>
  /\ Len(spans) = 3
  /\ spans[2].enders = << 2 >>
  /\ spans[3].enders = << 3 >>
  /\ curSpan = 0

\* C15: a call of a macOS-only method is forwarded once like any other and
\* emits a span exactly when the handler of its nearest peer emits one:
\* exchange as rename, getxtimes as getattr, setvolname as statfs.
C15_HostVerbsAsPeers ==
  (Returned /\ cur.verb \in HostVerbs) =>
    /\ innerCalls = << cur >>
    /\ (SpansOf(Len(kernelLog)) # {}) <=> (SpanName(Peer(cur.verb)) # NoSpan)

\* The requests of the k-th run of a repeated session (request 1 is init).
RunRequests(k) ==
  {r \in 2..(nOps + 1) : (k - 1) * Len(workload.script) + 1 < r
                           /\ r <= k * Len(workload.script) + 1}

\* The names of the spans started by the calls of a set of requests, in order.
SpanNamesOf(reqs) ==
  LET InRun(sp) == sp.req \in reqs
      sel == SelectSeq(spans, InRun)
  IN [i \in 1..Len(sel) |-> sel[i].name]

\* The replies to the requests of the k-th run, in order of request.
RepliesOf(k) ==
  [i \in 1..Cardinality(RunRequests(k)) |->
     replies[(k - 1) * Len(workload.script) + 1 + i]]

\* Both runs of a repeated session are over, late replies included.
BothRunsDone ==
  /\ workload.script # << >>
  /\ nOps = Len(workload.script) + Len(workload.script)
  /\ pc = "idle"
  /\ pending = {}

\* C16: when a sequence of read-only operations has been run twice against
\* an unchanged, deterministic wrapped filesystem, the second run produced
\* the same replies and the same span names, in the same order, as the first.
C16_RepeatIdentical ==
  BothRunsDone =>
    /\ RepliesOf(1) = RepliesOf(2)
    /\ SpanNamesOf(RunRequests(1)) = SpanNamesOf(RunRequests(2))

C16_Witness ==
  /\ BothRunsDone
  /\ kernelLog[2] = "read"
  /\ kernelLog[Len(workload.script) + 2] = "read"
  /\ replies[2] = << [by |-> "inner", val |-> Err(2)] >>
  /\ RepliesOf(1) = RepliesOf(2)
  /\ SpanNamesOf(RunRequests(2))[1] = "Filesystem::read"

\* C17: when the wrapped filesystem returns without writing a reply, the
\* handler writes none either: the channel of a request that the wrapped
\* filesystem left unanswered stays empty, no write on any channel is the
\* handler's, and the span of the call is ended all the same.
C17_NoFabricatedReply ==
  /\ \A r \in ReplyRequests :
       /\ \A k \in 1..Len(replies[r]) : replies[r][k].by = "inner"
       /\ directReplies[r] = << >> => replies[r] = << >>
  /\ (Returned /\ outcome.write = "silent") =>
       /\ replies[cur.reply] = << >>
       /\ \A i \in SpansOf(Len(kernelLog)) : spans[i].ends = 1

C17_Witness ==
  /\ phase = "destroyed"
  /\ kernelLog = << "init", "unlink", "destroy" >>
  /\ pending = {}
  /\ replies[2] = << >>
  /\ spans[2].verb = "unlink"
  /\ spans[2].ends = 1

\* C18: a returned call of a verb without a reply channel (forget,
\* batch_forget, destroy) has started exactly one span and ended it exactly
\* once, and has forwarded its arguments once, whatever the wrapped
\* filesystem did; batch_forget forwards even an empty node list once and
\* its span carries the name of batch_forget.
C18_NoReplyVerbsOneSpan ==
  (Returned /\ cur.verb \in NoReplyVerbs) =>
    /\ Cardinality(SpansOf(Len(kernelLog))) = 1
    /\ \A i \in SpansOf(Len(kernelLog)) :
         /\ spans[i].ends = 1
         /\ cur.verb = "batch_forget" => spans[i].name = "Filesystem::batch_forget"
    /\ Count("span_start") = 1
    /\ Count("span_end") = 1
    /\ innerCalls = << cur >>

C18_Witness ==
  /\ Returned
  /\ cur.verb = "batch_forget"
  /\ cur.args = << << >> >>
  /\ innerCalls = << cur >>
  /\ \E i \in SpansOf(Len(kernelLog)) :
       spans[i].name = "Filesystem::batch_forget" /\ spans[i].ends = 1

\* C19: no step of any call replaces or reassigns the wrapper's two fields
\* (the wrapped filesystem and the tracer) or gives the wrapper a further
\* field, and the arguments a handler forwards (inode numbers, file handles
\* and the rest) are the ones it received, unchanged.
C19_NoOwnState ==
  [][ /\ wrapper' = wrapper
      /\ DOMAIN wrapper' = {"fs", "tracer"}
      /\ innerCalls' # innerCalls =>
           \/ innerCalls' = << >>
           \/ innerCalls' = Append(innerCalls, cur) ]_vars

C19_Witness ==
  /\ phase = "destroyed"
  /\ Len(kernelLog) = MaxOps + 2
  /\ Len(innerLog) = Len(kernelLog)
  /\ innerCalls = << cur >>
  /\ wrapper = [fs |-> "fs", tracer |-> TracerOf("tracer_provider", "fuser")]

\* C20: every call whose tracer steps and wrapped operation return
\* eventually returns to the Kernel Bridge with every span it started
\* ended, whether or not a reply was written; a call stays in flight only
\* if the wrapped filesystem unwound instead of returning.
C20_CallReturns ==
  (pc = "running") ~>
    \/ pc = "crashed"
    \/ /\ Returned
       /\ \A i \in SpansOf(Len(kernelLog)) : spans[i].ends = 1

C20_Witness ==
  /\ Returned
  /\ cur.verb = "lookup"
  /\ outcome.write = "defer"
  /\ cur.reply \in pending
  /\ Count("tracer_fault") = 2
  /\ \A i \in SpansOf(Len(kernelLog)) : spans[i].ends = 1

\* The verbs listed as span-wrapped and as plainly forwarded.
ListedTraced ==
  { "init", "destroy", "lookup", "forget", "batch_forget", "getattr",
    "setattr", "readlink", "mknod", "mkdir", "unlink", "rmdir", "symlink",
    "rename", "link", "open", "read", "write", "flush" }

ListedPlain ==
  { "release", "fsync", "opendir", "readdir", "readdirplus", "releasedir",
    "fsyncdir", "statfs", "setxattr", "getxattr", "listxattr", "removexattr",
    "access", "create", "getlk", "setlk", "bmap", "ioctl", "poll",
    "fallocate", "lseek", "copy_file_range" }

\* C21: the verbs whose calls start and end a span are exactly the nineteen
\* from init to flush: a returned call of one of them has started one span
\* and ended it; a call of any of the twenty-two from release to
\* copy_file_range never starts a span and, once returned, has forwarded
\* to the wrapped filesystem exactly once.  The two lists are the whole
\* verb set.
C21_TracedExactlyListed ==
  /\ ListedTraced \cup ListedPlain = Verbs
  /\ ListedTraced \cap ListedPlain = {}
  /\ \A i \in 1..Len(spans) : spans[i].verb \in ListedTraced
  /\ (cur # NoCall /\ cur.verb \in ListedPlain) =>
       /\ SpansOf(Len(kernelLog)) = {}
       /\ Count("span_start") = 0
       /\ Count("span_end") = 0
  /\ (Returned /\ cur.verb \in ListedPlain) => innerCalls = << cur >>
  /\ (Returned /\ cur.verb \in ListedTraced) =>
       /\ Cardinality(SpansOf(Len(kernelLog))) = 1
       /\ \A i \in SpansOf(Len(kernelLog)) : spans[i].ends = 1
       /\ Count("span_start") = 1
       /\ Count("span_end") = 1

C21_Witness ==
  /\ Returned
  /\ cur.verb = "copy_file_range"
  /\ innerCalls = << cur >>
  /\ SpansOf(Len(kernelLog)) = {}
  /\ Len(spans) = 1
  /\ spans[1].verb = "init"
  /\ spans[1].ends = 1

\* C22: the tracer is bound once, at construction: a wrapper built by new
\* holds the tracer it was given and its code has asked no provider for
\* one; a wrapper built by new_with_provider has asked its provider once,
\* under the name "fuser", and holds that tracer; no call adds a lookup,
\* and every span of every call was started on the stored tracer, hence in
\* the provider the wrapper was built from and in no other.
C22_TracerBoundOnce ==
  LET b == workload.build IN
    /\ b.ctor = "new" =>
         /\ wrapper.tracer = [provider |-> b.provider, name |-> b.name]
         /\ lookups = << >>
    /\ b.ctor = "new_with_provider" =>
         /\ wrapper.tracer = [provider |-> b.provider, name |-> "fuser"]
         /\ lookups = << [provider |-> b.provider, name |-> "fuser"] >>
    /\ \A i \in 1..Len(spans) :
         /\ spans[i].tracer = wrapper.tracer
         /\ spans[i].tracer.provider = b.provider

C22_Witness ==
  /\ phase = "destroyed"
  /\ workload.build = [ctor |-> "new_with_provider", provider |-> "other_provider",
                       name |-> "test"]
  /\ kernelLog = << "init", "lookup", "lookup", "destroy" >>
  /\ Len(spans) = 4
  /\ \A i \in 1..Len(spans) : spans[i].tracer = TracerOf("other_provider", "fuser")
  /\ Len(lookups) = 1

\* The spans that were started and have not been ended.
OpenSpans == {i \in 1..Len(spans) : spans[i].ends = 0}

\* The calls that have entered a handler and not left it.
InFlight == IF pc \in {"running", "unwinding"} THEN {Len(kernelLog)} ELSE {}

\* C23: calls on the wrapper never overlap: at most one call is in flight,
\* at most one span is open and it belongs to the call in flight, and when
\* no call is in flight no span is open.
C23_NoOverlap ==
  /\ Cardinality(InFlight) <= 1
  /\ Cardinality(OpenSpans) <= 1
  /\ \A i \in OpenSpans : spans[i].req \in InFlight
  /\ InFlight = {} => OpenSpans = {}

====
